---- MODULE Spec2Model ----
(***************************************************************************)
(* A model of tag-changer: the ID3v1 codec of src/lib.rs (encode, decode,  *)
(* the genre table, locating and replacing the trailing 128-byte tag of a  *)
(* host stream) and the command line front end of src/main.rs.             *)
(*                                                                         *)
(* A byte is a number in 0..255, a Vec<u8> a sequence of bytes, a String a *)
(* sequence of Unicode code points.  A stream is the TestFile of the test  *)
(* module: its contents and its cursor position.                           *)
(***************************************************************************)
EXTENDS Integers, Sequences, FiniteSets, TLC

VARIABLES test_file, before, op, ret, last_tag, initial, steps, writes, fits,
          value, tags, decoded, codec_pc,
          main_file, main_tags, main_out, main_pc

stream_vars == <<test_file, before, op, ret, last_tag, initial, steps, writes, fits>>
codec_vars == <<value, tags, decoded, codec_pc>>
main_vars == <<main_file, main_tags, main_out, main_pc>>
vars == <<stream_vars, codec_vars, main_vars>>

\* ---------------------------------------------------------------- bounds
\* the number of operations performed on one stream in a run
MaxSteps == 3

\* ------------------------------------------------------------- constants
TagSize == 128
TitleWidth == 30
ArtistWidth == 30
AlbumWidth == 30
YearWidth == 4
CommentWidth == 30

\* b"TAG"
TAG == <<84, 65, 71>>

Zeros(n) == [i \in 1..n |-> 0]

Fill(n, b) == [i \in 1..n |-> b]

\* ------------------------------------------------------------ ISO_8859_1
\* From<&[u8]>: every byte becomes the char with that code point (c as char)
FromBytes(bytes) == [i \in 1..Len(bytes) |-> bytes[i]]

\* char::encode_utf8, which str::bytes() iterates: the UTF-8 bytes of a char
Utf8(c) ==
    IF c < 128 THEN <<c>>
    ELSE IF c < 2048 THEN <<192 + (c \div 64), 128 + (c % 64)>>
    ELSE IF c < 65536 THEN
        <<224 + (c \div 4096), 128 + ((c \div 64) % 64), 128 + (c % 64)>>
    ELSE <<240 + (c \div 262144), 128 + ((c \div 4096) % 64),
           128 + ((c \div 64) % 64), 128 + (c % 64)>>

RECURSIVE StrBytes(_)
\* str::bytes(): the bytes of the String, which Rust stores as UTF-8
StrBytes(s) == IF s = <<>> THEN <<>> ELSE Utf8(Head(s)) \o StrBytes(Tail(s))

\* String::len(): the length in bytes
StrLen(s) == Len(StrBytes(s))

\* ------------------------------------------------------------------ ID3v1
ID3v1(title, artist, album, year, comment, genre) ==
    [title |-> title, artist |-> artist, album |-> album, year |-> year,
     comment |-> comment, genre |-> genre]

NoTags == ID3v1(<<>>, <<>>, <<>>, <<>>, <<>>, 0)

Ok(t) == [status |-> "Ok", tags |-> t]
Err(e) == [status |-> e, tags |-> NoTags]

\* TryFrom with the marker sliced as value[0..2]: two bytes, never "TAG"
TryFrom_ShortMarker(v) ==
    IF Len(v) # TagSize THEN Err("ID3")
    ELSE IF FromBytes(SubSeq(v, 1, 2)) # TAG THEN Err("ID3")
    ELSE Ok(ID3v1(FromBytes(SubSeq(v, 4, 33)),
                  FromBytes(SubSeq(v, 34, 63)),
                  FromBytes(SubSeq(v, 64, 93)),
                  FromBytes(SubSeq(v, 94, 97)),
                  FromBytes(SubSeq(v, 98, 127)),
                  v[128]))

\* impl TryFrom<Vec<u8>> for ID3v1
TryFrom(v) ==
    IF Len(v) # TagSize THEN Err("ID3")
    ELSE IF FromBytes(SubSeq(v, 1, 3)) # TAG THEN Err("ID3")
    ELSE Ok(ID3v1(FromBytes(SubSeq(v, 4, 33)),
                  FromBytes(SubSeq(v, 34, 63)),
                  FromBytes(SubSeq(v, 64, 93)),
                  FromBytes(SubSeq(v, 94, 97)),
                  FromBytes(SubSeq(v, 98, 127)),
                  v[128]))

\* one iteration of the loop over text_fields: the bytes of the field, then
\* a zero for every index of the range len..width (empty when len >= width)
FieldBytes(s, width) ==
    StrBytes(s) \o (IF StrLen(s) < width THEN Zeros(width - StrLen(s)) ELSE <<>>)

\* impl From<ID3v1> for Vec<u8>
Into(t) ==
    TAG \o FieldBytes(t.title, TitleWidth)
        \o FieldBytes(t.artist, ArtistWidth)
        \o FieldBytes(t.album, AlbumWidth)
        \o FieldBytes(t.year, YearWidth)
        \o FieldBytes(t.comment, CommentWidth)
        \o <<t.genre>>

\* ---------------------------------------------------- the stream (TestFile)
TestFile(contents, cursor_position) ==
    [contents |-> contents, cursor_position |-> cursor_position]

\* Seek::seek(SeekFrom::End(offset)): an error when the position is negative
SeekEnd(f, offset) ==
    IF Len(f.contents) + offset < 0
    THEN [ok |-> FALSE, pos |-> 0, file |-> f]
    ELSE [ok |-> TRUE, pos |-> Len(f.contents) + offset,
          file |-> TestFile(f.contents, Len(f.contents) + offset)]

\* Seek::seek(SeekFrom::Start(offset))
SeekStart(f, offset) ==
    [ok |-> TRUE, pos |-> offset, file |-> TestFile(f.contents, offset)]

\* Read::read: copies min(remaining, buf.len()) bytes and advances the cursor
\* (the cursor is never beyond the end in the calls of the library)
ReadSome(f, n) ==
    LET amount == IF Len(f.contents) - f.cursor_position < n
                  THEN Len(f.contents) - f.cursor_position ELSE n
    IN  [buf |-> SubSeq(f.contents, f.cursor_position + 1,
                        f.cursor_position + amount),
         file |-> TestFile(f.contents, f.cursor_position + amount)]

\* Read::read_exact over Read::read: reads until the buffer is full, and
\* fails (UnexpectedEof) when the stream ends first
ReadExact(f, n) ==
    LET r == ReadSome(f, n)
    IN  IF Len(r.buf) < n
        THEN [ok |-> FALSE, buf |-> r.buf \o Zeros(n - Len(r.buf)), file |-> r.file]
        ELSE [ok |-> TRUE, buf |-> r.buf, file |-> r.file]

\* Write::write_all over Write::write: every byte overwrites the byte under
\* the cursor, or is pushed when the cursor is at the end
WriteAll(f, buf) ==
    LET c == f.cursor_position
        n == Len(buf)
        total == IF c + n > Len(f.contents) THEN c + n ELSE Len(f.contents)
    IN  TestFile([i \in 1..total |->
                     IF i > c /\ i <= c + n THEN buf[i - c] ELSE f.contents[i]],
                 c + n)

\* ------------------------------------------------------------ ID3v1::read
Read(source) ==
    LET s == SeekEnd(source, 0 - TagSize)
        r == ReadExact(s.file, TagSize)
    IN  IF ~s.ok THEN [res |-> Err("IO"), file |-> s.file]
        ELSE IF ~r.ok THEN [res |-> Err("IO"), file |-> r.file]
        ELSE [res |-> TryFrom(r.buf), file |-> r.file]

\* get_contents_without_tag without its read_exact: the buffer stays zeroed
GetContentsWithoutTag_NoReadBack(from) ==
    LET rd == Read(from)
        e == IF rd.res.status = "Ok"
             THEN SeekEnd(rd.file, 0 - TagSize)
             ELSE SeekEnd(rd.file, 0)
        end_position == e.pos
        s == SeekStart(e.file, 0)
    IN  [ok |-> TRUE, buff |-> Zeros(end_position), file |-> s.file]

\* get_contents_without_tag taking every result of read but an IO error for a
\* tag: 128 bytes are dropped whether or not they begin with the marker
GetContentsWithoutTag_AnyTrailer(from) ==
    LET rd == Read(from)
        e == IF rd.res.status # "IO"
             THEN SeekEnd(rd.file, 0 - TagSize)
             ELSE SeekEnd(rd.file, 0)
        end_position == e.pos
        s == SeekStart(e.file, 0)
        b == ReadExact(s.file, end_position)
    IN  [ok |-> b.ok, buff |-> b.buf, file |-> b.file]

\* get_contents_without_tag cutting the tag off the stream itself
GetContentsWithoutTag_Truncating(from) ==
    LET rd == Read(from)
        e == IF rd.res.status = "Ok"
             THEN SeekEnd(rd.file, 0 - TagSize)
             ELSE SeekEnd(rd.file, 0)
        end_position == e.pos
        s == SeekStart(e.file, 0)
        b == ReadExact(s.file, end_position)
    IN  [ok |-> b.ok, buff |-> b.buf,
         file |-> TestFile(b.buf, b.file.cursor_position)]

\* ID3v1::get_contents_without_tag
GetContentsWithoutTag(from) ==
    LET rd == Read(from)
        e == IF rd.res.status = "Ok"
             THEN SeekEnd(rd.file, 0 - TagSize)
             ELSE SeekEnd(rd.file, 0)
        end_position == e.pos
        s == SeekStart(e.file, 0)
        b == ReadExact(s.file, end_position)
    IN  [ok |-> b.ok, buff |-> b.buf, file |-> b.file]

\* ID3v1::write
Write(self, destination) ==
    LET g == GetContentsWithoutTag(destination)
        contents == g.buff \o Into(self)
        s == SeekStart(g.file, 0)
    IN  IF ~g.ok THEN [ok |-> FALSE, file |-> g.file]
        ELSE [ok |-> TRUE, file |-> WriteAll(s.file, contents)]

\* ------------------------------------------------- ID3v1::get_genre_str
Str(s) == [panic |-> FALSE, str |-> s]
Todo(msg) == [panic |-> TRUE, str |-> msg]

GenreNames ==
    <<"Blues", "Classic rock", "Country", "Dance", "Disco", "Funk", "Grunge",
      "Hip-hop", "Jazz", "Metal", "New age", "Oldies", "Other", "Pop",
      "Rythm and blues", "Rap", "Reggae", "Rock", "Techno", "Industrial",
      "Alternative", "Ska", "Death Metal", "Soundtrack", "Unknown",
      "Euro-techno", "Ambient", "Trip-hop">>

get_genre_str(genre) ==
    IF genre \in 0..23 \/ genre \in 25..27 THEN Str(GenreNames[genre + 1])
    ELSE IF genre \in 28..191
         THEN Todo("the requested genre was not yet implemented")
         ELSE Str("Unknown")

\* impl Display for ID3v1: six labelled lines, or the panic of get_genre_str
Display(t) ==
    LET g == get_genre_str(t.genre)
    IN  IF g.panic THEN [panic |-> TRUE, lines |-> <<>>]
        ELSE [panic |-> FALSE,
              lines |-> << <<"Song title", t.title>>, <<"Artist", t.artist>>,
                           <<"Album", t.album>>, <<"Year", t.year>>,
                           <<"Comment", t.comment>>, <<"Genre", g.str>> >>]

\* ----------------------------------------------------------------- inputs
\* the field values of tests::basic_write, as code points
testsong == <<116, 101, 115, 116, 115, 111, 110, 103>>
testartist == <<116, 101, 115, 116, 97, 114, 116, 105, 115, 116>>
testalbum == <<116, 101, 115, 116, 97, 108, 98, 117, 109>>
year2024 == <<50, 48, 50, 52>>
testcomment == <<116, 101, 115, 116, 99, 111, 109, 109, 101, 110, 116>>
newsong == <<110, 101, 119, 115, 111, 110, 103>>

\* n bytes that differ from their neighbours and never spell the marker
Ramp(n) == [i \in 1..n |-> (i * 7) % 256]

BasicTags == ID3v1(testsong, testartist, testalbum, year2024, testcomment, 5)

WithTitle(t) == ID3v1(t, testartist, testalbum, year2024, testcomment, 5)

\* titles: empty, short, exactly 30 bytes, 31 ASCII chars, one Latin-1 char
\* (U+00E9), 30 chars of which one is Latin-1, a char beyond Latin-1 (U+20AC),
\* and a title that ends with a NUL char
Titles ==
    {<<>>, testsong, newsong, Fill(30, 97), Fill(31, 97), <<233>>,
     Fill(29, 97) \o <<233>>, <<8364>>, <<97, 0>>}

Years == {<<>>, year2024, year2024 \o <<53>>}

Genres == {5, 200}

Tags ==
    {ID3v1(t, testartist, testalbum, y, testcomment, g) :
        t \in Titles, y \in Years, g \in Genres}

\* the tags handed to ID3v1::write
WriteTags ==
    {BasicTags, WithTitle(newsong), WithTitle(Fill(30, 97)),
     WithTitle(Fill(31, 97)), WithTitle(Fill(29, 97) \o <<233>>),
     ID3v1(newsong, testartist, testalbum, year2024 \o <<53>>, testcomment, 200)}

\* what a stream may hold before its last 128 bytes
Hosts == {<<>>, <<1, 2>>, Fill(20, 1), Ramp(300)}

\* the end of a stream: nothing, an encoded tag, the marker followed by 125
\* other bytes, 128 bytes without the marker, 127 bytes that start with it
Trailers ==
    {<<>>, Into(BasicTags), TAG \o Ramp(125), Fill(128, 1), TAG \o Fill(124, 1)}

Streams == {h \o t : h \in Hosts, t \in Trailers}

\* the vectors handed to TryFrom, or held by the stream handed to read
Buffers ==
    Streams \cup
    {TAG, TAG \o Fill(126, 1), <<84, 65, 70>> \o Zeros(125),
     <<116, 97, 103>> \o Zeros(125), <<65, 84, 71>> \o Ramp(125),
     TAG \o Zeros(125)}

\* the files handed to main: a tag of every genre code, and no tag at all
MainFiles ==
    {Ramp(10) \o Into(ID3v1(testsong, testartist, testalbum, year2024,
                            testcomment, g)) : g \in 0..255}
    \cup {Fill(20, 1), Ramp(300)}

\* ------------------------------------------ operations on a host stream
Result(status, t, buff) == [status |-> status, tags |-> t, buff |-> buff]

\* at most the fixed width in characters, in every text field
FitsWidths(t) ==
    /\ Len(t.title) <= TitleWidth
    /\ Len(t.artist) <= ArtistWidth
    /\ Len(t.album) <= AlbumWidth
    /\ Len(t.year) <= YearWidth
    /\ Len(t.comment) <= CommentWidth

StreamIdle ==
    /\ test_file = TestFile(<<>>, 0)
    /\ before = TestFile(<<>>, 0)
    /\ op = "none"
    /\ ret = Result("none", NoTags, <<>>)
    /\ last_tag = NoTags
    /\ initial = <<>>
    /\ steps = 0
    /\ writes = 0
    /\ fits = TRUE

CodecIdle ==
    /\ value = <<>>
    /\ tags = NoTags
    /\ decoded = Err("none")
    /\ codec_pc = "idle"

MainIdle ==
    /\ main_file = TestFile(<<>>, 0)
    /\ main_tags = NoTags
    /\ main_out = [panic |-> "none", lines |-> <<>>]
    /\ main_pc = "idle"

\* a stream, opened at its start
StreamInit ==
    /\ \E c \in Streams :
        /\ test_file = TestFile(c, 0)
        /\ before = TestFile(c, 0)
        /\ initial = c
    /\ op = "none"
    /\ ret = Result("none", NoTags, <<>>)
    /\ last_tag = NoTags
    /\ steps = 0
    /\ writes = 0
    /\ fits = TRUE

Init == StreamInit /\ CodecIdle /\ MainIdle

\* ID3v1::read(&mut test_file)
ReadCall ==
    /\ steps < MaxSteps
    /\ LET r == Read(test_file)
       IN  /\ test_file' = r.file
           /\ ret' = Result(r.res.status, r.res.tags, <<>>)
    /\ before' = test_file
    /\ op' = "read"
    /\ steps' = steps + 1
    /\ UNCHANGED <<last_tag, initial, writes, fits>>
    /\ UNCHANGED <<codec_vars, main_vars>>

\* ID3v1::get_contents_without_tag(&mut test_file)
GetContentsCall ==
    /\ steps < MaxSteps
    /\ LET g == GetContentsWithoutTag(test_file)
       IN  /\ test_file' = g.file
           /\ ret' = Result(IF g.ok THEN "Ok" ELSE "IO", NoTags, g.buff)
    /\ before' = test_file
    /\ op' = "get_contents"
    /\ steps' = steps + 1
    /\ UNCHANGED <<last_tag, initial, writes, fits>>
    /\ UNCHANGED <<codec_vars, main_vars>>

\* t.write(&mut test_file)
WriteCall ==
    /\ steps < MaxSteps
    /\ \E t \in WriteTags :
        /\ LET w == Write(t, test_file)
           IN  /\ test_file' = w.file
               /\ ret' = Result(IF w.ok THEN "Ok" ELSE "IO", NoTags, <<>>)
        /\ last_tag' = t
        /\ fits' = (fits /\ FitsWidths(t))
    /\ before' = test_file
    /\ op' = "write"
    /\ steps' = steps + 1
    /\ writes' = writes + 1
    /\ UNCHANGED initial
    /\ UNCHANGED <<codec_vars, main_vars>>

Next == ReadCall \/ GetContentsCall \/ WriteCall

Spec == Init /\ [][Next]_vars

\* ------------------------------------------------------------ the codec
\* a vector of bytes and a tag to work on
CodecInit ==
    /\ value \in Buffers
    /\ tags \in Tags
    /\ decoded = Err("none")
    /\ codec_pc = "start"

InitCodec == StreamIdle /\ CodecInit /\ MainIdle

\* let value: Vec<u8> = tags.into()
IntoCall ==
    /\ codec_pc = "start"
    /\ value' = Into(tags)
    /\ codec_pc' = "encoded"
    /\ UNCHANGED <<tags, decoded>>
    /\ UNCHANGED <<stream_vars, main_vars>>

\* ID3v1::try_from(value), of the vector given or of the vector encoded
TryFromCall ==
    /\ codec_pc \in {"start", "encoded"}
    /\ decoded' = TryFrom(value)
    /\ codec_pc' = IF codec_pc = "start" THEN "decoded" ELSE "roundtrip"
    /\ UNCHANGED <<value, tags>>
    /\ UNCHANGED <<stream_vars, main_vars>>

\* ID3v1::read of a stream that holds the vector
ReadValueCall ==
    /\ codec_pc \in {"start", "encoded"}
    /\ decoded' = Read(TestFile(value, 0)).res
    /\ codec_pc' = "read"
    /\ UNCHANGED <<value, tags>>
    /\ UNCHANGED <<stream_vars, main_vars>>

NextCodec == IntoCall \/ TryFromCall \/ ReadValueCall

SpecCodec == InitCodec /\ [][NextCodec]_vars

\* ------------------------------------------------------------- main.rs
MainInit ==
    /\ \E c \in MainFiles : main_file = TestFile(c, 0)
    /\ main_tags = NoTags
    /\ main_out = [panic |-> "none", lines |-> <<>>]
    /\ main_pc = "start"

InitMain == StreamIdle /\ CodecIdle /\ MainInit

\* let tags = match ID3v1::read(&mut file) { ... }
MainRead ==
    /\ main_pc = "start"
    /\ LET r == Read(main_file)
       IN  /\ main_file' = r.file
           /\ IF r.res.status = "Ok"
              THEN /\ main_tags' = r.res.tags
                   /\ main_pc' = "read"
                   /\ UNCHANGED main_out
              ELSE /\ main_pc' = "panicked"
                   /\ main_out' =
                        [panic |-> IF r.res.status = "ID3"
                                   THEN "Could not parse tags of file"
                                   ELSE "Could not open file",
                         lines |-> <<>>]
                   /\ UNCHANGED main_tags
    /\ UNCHANGED <<stream_vars, codec_vars>>

\* println!("{}", tags)
MainPrint ==
    /\ main_pc = "read"
    /\ LET d == Display(main_tags)
       IN  IF d.panic
           THEN /\ main_pc' = "panicked"
                /\ main_out' = [panic |-> "not yet implemented", lines |-> <<>>]
           ELSE /\ main_pc' = "done"
                /\ main_out' = [panic |-> "none", lines |-> d.lines]
    /\ UNCHANGED <<main_file, main_tags>>
    /\ UNCHANGED <<stream_vars, codec_vars>>

NextMain == MainRead \/ MainPrint

SpecMain == InitMain /\ [][NextMain]_vars

\* ================================================================ claims
\* the last 128 bytes of c begin with the marker "TAG"
HasTag(c) ==
    /\ Len(c) >= 128
    /\ SubSeq(c, Len(c) - 127, Len(c) - 125) = <<84, 65, 71>>

\* the number of host bytes in front of the tag, if there is one
Base(c) == IF HasTag(c) THEN Len(c) - 128 ELSE Len(c)

RECURSIVE TrimNul(_)
\* s without its trailing NUL characters
TrimNul(s) ==
    IF s # <<>> /\ s[Len(s)] = 0 THEN TrimNul(SubSeq(s, 1, Len(s) - 1)) ELSE s

\* every character of every text field has a code point in 0..255
Latin1(t) ==
    \A f \in {t.title, t.artist, t.album, t.year, t.comment} :
        \A i \in 1..Len(f) : f[i] \in 0..255

\* the slot holds the first min(length, width) characters of s, one byte per
\* character, and zero bytes after them
SlotHolds(slot, s, width) ==
    /\ Len(slot) = width
    /\ \A i \in 1..Len(slot) :
        IF i <= Len(s)
        THEN s[i] \in 0..255 => slot[i] = s[i]
        ELSE slot[i] = 0

\* C1: after a successful write the stream is base + 128 bytes long, where
\* base is the length before the call, less 128 if the stream ended in a tag.
C1_LengthAfterWrite ==
    (op = "write" /\ ret.status = "Ok")
        => Len(test_file.contents) = Base(before.contents) + 128

\* C2: a successful write leaves the first base bytes of the stream as they
\* were before the call.
C2_HostBytesUnchanged ==
    (op = "write" /\ ret.status = "Ok")
        => /\ Len(test_file.contents) >= Base(before.contents)
           /\ SubSeq(test_file.contents, 1, Base(before.contents))
                = SubSeq(before.contents, 1, Base(before.contents))

\* a write has replaced the tag of a stream that holds 300 bytes before it
C2_Witness ==
    /\ op = "write"
    /\ ret.status = "Ok"
    /\ HasTag(before.contents)
    /\ Base(before.contents) = 300
    /\ test_file.contents # before.contents

\* C3: decoding the encoding of a tag whose text fields are Latin-1 and at most
\* their width in characters succeeds, and yields the genre and, once trailing
\* NULs are removed, the text fields of the tag.
C3_RoundTrip ==
    (codec_pc = "roundtrip" /\ Latin1(tags) /\ FitsWidths(tags))
        => /\ decoded.status = "Ok"
           /\ decoded.tags.genre = tags.genre
           /\ TrimNul(decoded.tags.title) = TrimNul(tags.title)
           /\ TrimNul(decoded.tags.artist) = TrimNul(tags.artist)
           /\ TrimNul(decoded.tags.album) = TrimNul(tags.album)
           /\ TrimNul(decoded.tags.year) = TrimNul(tags.year)
           /\ TrimNul(decoded.tags.comment) = TrimNul(tags.comment)

\* C4: the encoding of any tag is 128 bytes: the marker, the five text slots at
\* offsets 3, 33, 63, 93 and 97, each holding the first min(length, width)
\* characters and then zeros, and the genre byte at offset 127.
C4_EncodeLayout ==
    codec_pc = "encoded"
        => /\ Len(value) = 128
           /\ SubSeq(value, 1, 3) = <<84, 65, 71>>
           /\ SlotHolds(SubSeq(value, 4, 33), tags.title, 30)
           /\ SlotHolds(SubSeq(value, 34, 63), tags.artist, 30)
           /\ SlotHolds(SubSeq(value, 64, 93), tags.album, 30)
           /\ SlotHolds(SubSeq(value, 94, 97), tags.year, 4)
           /\ SlotHolds(SubSeq(value, 98, 127), tags.comment, 30)
           /\ value[128] = tags.genre

\* C5: read fails with IO on a stream shorter than 128 bytes, with ID3 on a
\* longer stream whose last 128 bytes do not begin with "TAG", and succeeds on
\* every other stream; try_from fails with ID3 on a vector that is not 128
\* bytes long.
C5_ReadOutcome ==
    /\ codec_pc = "read"
        => decoded.status =
             IF Len(value) < 128 THEN "IO"
             ELSE IF HasTag(value) THEN "Ok" ELSE "ID3"
    /\ (codec_pc \in {"decoded", "roundtrip"} /\ Len(value) # 128)
        => decoded.status = "ID3"

\* read has failed with ID3 on a stream that differs from a tag in one byte of
\* the marker only
C5_Witness ==
    /\ codec_pc = "read"
    /\ value = <<84, 65, 70>> \o Zeros(125)
    /\ decoded.status = "ID3"

\* C6: printing a tag that was read never panics, whatever its genre byte, the
\* bytes 28..191 included.
C6_NoPanicOnGenre ==
    main_pc = "panicked" => main_out.panic # "not yet implemented"

\* the names the specification lists for the codes 0..27
CanonicalNames ==
    <<"Blues", "Classic rock", "Country", "Dance", "Disco", "Funk", "Grunge",
      "Hip-hop", "Jazz", "Metal", "New age", "Oldies", "Other", "Pop",
      "Rhythm and blues", "Rap", "Reggae", "Rock", "Techno", "Industrial",
      "Alternative", "Ska", "Death Metal", "Soundtrack", "Unknown",
      "Euro-techno", "Ambient", "Trip-hop">>

\* C7: the genre line of a printed tag is the canonical name of its code for
\* the codes 0..27, and "Unknown" for the code 24 and the codes 192..255.
C7_GenreNames ==
    main_pc = "done"
        => /\ main_tags.genre \in 0..27
                => main_out.lines[6] = <<"Genre", CanonicalNames[main_tags.genre + 1]>>
           /\ main_tags.genre \in 192..255
                => main_out.lines[6] = <<"Genre", "Unknown">>

\* C8: get_contents_without_tag succeeds on every stream and returns the bytes
\* in front of the trailing tag, or the whole stream when it ends in no tag.
C8_StripTrailingTag ==
    op = "get_contents"
        => /\ ret.status = "Ok"
           /\ ret.buff = SubSeq(before.contents, 1, Base(before.contents))
           /\ HasTag(before.contents)
                => Len(ret.buff) = Len(before.contents) - 128
           /\ ~HasTag(before.contents) => ret.buff = before.contents

\* get_contents_without_tag has returned the two bytes in front of the marker
\* and its 125 other bytes
C8_Witness ==
    /\ op = "get_contents"
    /\ before.contents = <<1, 2>> \o <<84, 65, 71>> \o Ramp(125)
    /\ ret.buff = <<1, 2>>

\* C9: after one or more writes of tags whose text fields are at most their
\* width in characters, the stream is what one write of the last tag would
\* have made of the original stream.
C9_Idempotent ==
    (writes >= 1 /\ writes = steps /\ fits)
        => test_file.contents
             = Write(last_tag, TestFile(initial, 0)).file.contents

\* C10: read and get_contents_without_tag leave the bytes and the length of
\* the stream as they were; only the cursor may move.
C10_ReadOnly ==
    op \in {"read", "get_contents"}
        => test_file.contents = before.contents

\* get_contents_without_tag has moved the cursor of a stream that ends in a tag
C10_Witness ==
    /\ op = "get_contents"
    /\ HasTag(before.contents)
    /\ test_file.cursor_position # before.cursor_position
    /\ test_file.contents = before.contents

====
